---- MODULE Spec2Model ----
(***************************************************************************)
(* twilight-bucket: Bucket (src/src/lib.rs), a concurrent usage ledger     *)
(* keyed by ID with the two operations Bucket::register and                *)
(* Bucket::limit_duration over a DashMap<NonZeroU64, Usage>.               *)
(*                                                                         *)
(* Time is a discrete monotonic clock (Instant::now()).  Each thread runs  *)
(* one call at a time; a call is split at the points where DashMap takes   *)
(* or releases a shard lock and where the clock is read, so that every     *)
(* interleaving the code allows is a behaviour of the model.               *)
(***************************************************************************)
EXTENDS Integers, Sequences, FiniteSets, TLC

\* ---------------------------------------------------------------- bounds
MaxTime == 3        \* the clock runs over 0..MaxTime
MaxWindow == 2      \* Limit.duration is drawn from 0..MaxWindow
MaxLimitCount == 2  \* Limit.count is drawn from 1..MaxLimitCount
UsizeMax == 2       \* stand-in for usize::MAX, the largest value of Usage.count

\* the threads sharing the Bucket, and the IDs they use
Threads == {1, 2}
Ids == {1, 2}
\* the DashMap shard an ID hashes to
ShardOf(id) == (id + 1) \div 2
\* register calls per ID: enough to drive Usage.count past UsizeMax
MaxRegs == UsizeMax + 1

VARIABLES
    limit,   \* Bucket.limit : Limit {duration, count}
    usages,  \* Bucket.usages : ID -> Usage, NoUsage where the map has no entry
    clock,   \* the monotonic clock read by Instant::now()
    pc,      \* where each thread stands in its current call
    arg,     \* the id argument of each thread's current (or last) call
    fresh,   \* the Usage::new() value a register call is about to insert
    ret,     \* the answer of each thread's last limit_duration call, until the
             \* thread asks again or has registered a usage
    log      \* per ID, the instants read by the register calls so far

vars == <<limit, usages, clock, pc, arg, fresh, ret, log>>

\* ------------------------------------------------------------------ types
Limit == [duration : 0..MaxWindow, count : 1..MaxLimitCount]

NoUsage == [present |-> FALSE, time |-> 0, count |-> 0]
Usage(time, count) == [present |-> TRUE, time |-> time, count |-> count]

\* Option<Duration>
None == [some |-> FALSE, d |-> 0]
Some(d) == [some |-> TRUE, d |-> d]
NotCalled == [some |-> FALSE, d |-> -1]

\* the result of a subtraction that underflows (a panic in Rust)
Underflow == -1

\* Instant - Instant
InstantSub(a, b) == IF a >= b THEN a - b ELSE Underflow

\* Duration - Duration
DurationSub(a, b) == IF a >= b THEN a - b ELSE Underflow

\* Usage::new(): now as time and 1 as count
UsageNew(now) == Usage(now, 1)

\* usize addition followed by try_into::<NonZeroUsize>(): 0 stands for the
\* failed conversion (the wrapped sum), on which unwrap() panics
NonZeroSucc(count) == (count + 1) % (UsizeMax + 1)

\* the new value of usage.count in the Some arm of register (0: panic)
NextCount(usage, now, lim) ==
    IF InstantSub(now, usage.time) > lim.duration
    THEN 1
    ELSE NonZeroSucc(usage.count)

\* faulty variant of RegisterExisting: the window start is kept at the first
\* use while the window is open
RegisterExisting_KeepStart(usage, now, lim) ==
    IF InstantSub(now, usage.time) > lim.duration
    THEN Usage(now, 1)
    ELSE Usage(usage.time, NonZeroSucc(usage.count))

\* the Usage the Some arm of register leaves for an entry it found: the new
\* count, and now as time
RegisterExisting(usage, now, lim) == Usage(now, NextCount(usage, now, lim))

\* faulty variant of LimitDurationOf: duration >= elapsed
LimitDurationOf_Inclusive(usage, now, lim) ==
    LET elapsed == InstantSub(now, usage.time)
    IN  IF usage.count >= lim.count /\ lim.duration >= elapsed
        THEN Some(DurationSub(lim.duration, elapsed))
        ELSE None

\* faulty variant of LimitDurationOf: count > limit.count
LimitDurationOf_OffByOne(usage, now, lim) ==
    LET elapsed == InstantSub(now, usage.time)
    IN  IF usage.count > lim.count /\ lim.duration > elapsed
        THEN Some(DurationSub(lim.duration, elapsed))
        ELSE None

\* faulty variant of LimitDurationOf: the subtraction is made before the test
\* (bool::then_some in place of bool::then)
LimitDurationOf_Eager(usage, now, lim) ==
    LET elapsed == InstantSub(now, usage.time)
        left == DurationSub(lim.duration, elapsed)
    IN  IF left = Underflow
        THEN Some(Underflow)
        ELSE IF usage.count >= lim.count /\ lim.duration > elapsed
             THEN Some(left)
             ELSE None

\* faulty variant of LimitDurationOf: the time waited so far is returned
LimitDurationOf_Elapsed(usage, now, lim) ==
    LET elapsed == InstantSub(now, usage.time)
    IN  IF usage.count >= lim.count /\ lim.duration > elapsed
        THEN Some(elapsed)
        ELSE None

\* the value limit_duration computes from a usage it found
LimitDurationOf(usage, now, lim) ==
    LET elapsed == InstantSub(now, usage.time)
    IN  IF usage.count >= lim.count /\ lim.duration > elapsed
        THEN Some(DurationSub(lim.duration, elapsed))
        ELSE None

\* ------------------------------------------------------- DashMap locking
RegisterPcs == {"get_mut", "some_arm", "none_arm", "insert"}
QueryPcs == {"get", "ref_held"}

\* faulty variant of WriteHeld: the guard of the match scrutinee lives until
\* the end of the match, the None arm included
WriteHeld_AcrossMatch(s) ==
    \E t \in Threads :
       pc[t] \in {"some_arm", "none_arm", "insert"} /\ ShardOf(arg[t]) = s

\* a RefMut (shard write guard) is alive
WriteHeld(s) == \E t \in Threads : pc[t] = "some_arm" /\ ShardOf(arg[t]) = s
\* a Ref (shard read guard) is alive
ReadHeld(s) == \E t \in Threads : pc[t] = "ref_held" /\ ShardOf(arg[t]) = s

\* register calls on id that have not read the clock yet
Pending(id) ==
    Cardinality({t \in Threads :
        pc[t] \in {"get_mut", "some_arm", "none_arm"} /\ arg[t] = id})

\* ------------------------------------------------------------------- Init
\* Bucket::new(limit): an empty map
Init ==
    /\ limit \in Limit
    /\ usages = [id \in Ids |-> NoUsage]
    /\ clock = 0
    /\ pc = [t \in Threads |-> "idle"]
    /\ arg = [t \in Threads |-> 1]
    /\ fresh = [t \in Threads |-> NoUsage]
    /\ ret = [t \in Threads |-> NotCalled]
    /\ log = [id \in Ids |-> <<>>]

\* ---------------------------------------------------------------- actions
\* time passes
Tick ==
    /\ clock < MaxTime
    /\ clock' = clock + 1
    /\ UNCHANGED <<limit, usages, pc, arg, fresh, ret, log>>

\* a thread calls register(id)
register_call(t, id) ==
    /\ pc[t] = "idle"
    /\ Len(log[id]) + Pending(id) < MaxRegs
    /\ pc' = [pc EXCEPT ![t] = "get_mut"]
    /\ arg' = [arg EXCEPT ![t] = id]
    /\ UNCHANGED <<limit, usages, clock, fresh, ret, log>>

\* faulty variant of register_get_mut: the entry is looked up without the
\* shard's write lock
register_get_mut_unlocked(t) ==
    /\ pc[t] = "get_mut"
    /\ pc' = [pc EXCEPT ![t] =
                IF usages[arg[t]].present THEN "some_arm" ELSE "none_arm"]
    /\ UNCHANGED <<limit, usages, clock, arg, fresh, ret, log>>

\* self.usages.get_mut(&id): takes the shard's write lock; keeps it (RefMut)
\* when the entry exists, releases it when it does not
register_get_mut(t) ==
    /\ pc[t] = "get_mut"
    /\ ~WriteHeld(ShardOf(arg[t]))
    /\ ~ReadHeld(ShardOf(arg[t]))
    /\ pc' = [pc EXCEPT ![t] =
                IF usages[arg[t]].present THEN "some_arm" ELSE "none_arm"]
    /\ UNCHANGED <<limit, usages, clock, arg, fresh, ret, log>>

\* faulty variant of register_some_arm: a usage of a limited ID is dropped
register_some_arm_gated(t) ==
    /\ pc[t] = "some_arm"
    /\ LET id == arg[t]
           now == clock
           new == RegisterExisting(usages[id], now, limit)
       IN  IF LimitDurationOf(usages[id], now, limit).some
           THEN /\ pc' = [pc EXCEPT ![t] = "idle"]
                /\ ret' = [ret EXCEPT ![t] = NotCalled]
                /\ UNCHANGED <<usages, log>>
           ELSE IF InstantSub(now, usages[id].time) = Underflow \/ new.count = 0
           THEN /\ pc' = [pc EXCEPT ![t] = "panicked"]
                /\ UNCHANGED <<usages, log, ret>>
           ELSE /\ usages' = [usages EXCEPT ![id] = new]
                /\ log' = [log EXCEPT ![id] = Append(@, now)]
                /\ pc' = [pc EXCEPT ![t] = "idle"]
                /\ ret' = [ret EXCEPT ![t] = NotCalled]
    /\ UNCHANGED <<limit, clock, arg, fresh>>

\* faulty variant of register_some_arm: a record whose window is over is
\* removed instead of being reset
register_some_arm_evicting(t) ==
    /\ pc[t] = "some_arm"
    /\ LET id == arg[t]
           now == clock
           new == RegisterExisting(usages[id], now, limit)
       IN  IF InstantSub(now, usages[id].time) = Underflow \/ new.count = 0
           THEN /\ pc' = [pc EXCEPT ![t] = "panicked"]
                /\ UNCHANGED <<usages, log, ret>>
           ELSE /\ usages' = [usages EXCEPT ![id] =
                                IF now - usages[id].time > limit.duration
                                THEN NoUsage ELSE new]
                /\ log' = [log EXCEPT ![id] = Append(@, now)]
                /\ pc' = [pc EXCEPT ![t] = "idle"]
                /\ ret' = [ret EXCEPT ![t] = NotCalled]
    /\ UNCHANGED <<limit, clock, arg, fresh>>

\* the Some arm: read the clock, set count and time, drop the RefMut
register_some_arm(t) ==
    /\ pc[t] = "some_arm"
    /\ LET id == arg[t]
           now == clock
           new == RegisterExisting(usages[id], now, limit)
       IN  IF InstantSub(now, usages[id].time) = Underflow \/ new.count = 0
           THEN /\ pc' = [pc EXCEPT ![t] = "panicked"]
                /\ UNCHANGED <<usages, log, ret>>
           ELSE /\ usages' = [usages EXCEPT ![id] = new]
                /\ log' = [log EXCEPT ![id] = Append(@, now)]
                /\ pc' = [pc EXCEPT ![t] = "idle"]
                /\ ret' = [ret EXCEPT ![t] = NotCalled]
    /\ UNCHANGED <<limit, clock, arg, fresh>>

\* the None arm, first half: Usage::new() reads the clock
register_none_arm(t) ==
    /\ pc[t] = "none_arm"
    /\ fresh' = [fresh EXCEPT ![t] = UsageNew(clock)]
    /\ log' = [log EXCEPT ![arg[t]] = Append(@, clock)]
    /\ pc' = [pc EXCEPT ![t] = "insert"]
    /\ UNCHANGED <<limit, usages, clock, arg, ret>>

\* faulty variant of register_insert: the usage is stored for every ID of the
\* shard
register_insert_shard(t) ==
    /\ pc[t] = "insert"
    /\ ~WriteHeld(ShardOf(arg[t]))
    /\ ~ReadHeld(ShardOf(arg[t]))
    /\ usages' = [id \in Ids |->
                    IF ShardOf(id) = ShardOf(arg[t]) THEN fresh[t]
                    ELSE usages[id]]
    /\ fresh' = [fresh EXCEPT ![t] = NoUsage]
    /\ pc' = [pc EXCEPT ![t] = "idle"]
    /\ ret' = [ret EXCEPT ![t] = NotCalled]
    /\ UNCHANGED <<limit, clock, arg, log>>

\* the None arm, second half: self.usages.insert(id, usage) replaces whatever
\* the map holds for id
register_insert(t) ==
    /\ pc[t] = "insert"
    /\ ~WriteHeld(ShardOf(arg[t]))
    /\ ~ReadHeld(ShardOf(arg[t]))
    /\ usages' = [usages EXCEPT ![arg[t]] = fresh[t]]
    /\ fresh' = [fresh EXCEPT ![t] = NoUsage]
    /\ pc' = [pc EXCEPT ![t] = "idle"]
    /\ ret' = [ret EXCEPT ![t] = NotCalled]
    /\ UNCHANGED <<limit, clock, arg, log>>

\* a thread calls limit_duration(id)
limit_duration_call(t, id) ==
    /\ pc[t] = "idle"
    /\ pc' = [pc EXCEPT ![t] = "get"]
    /\ arg' = [arg EXCEPT ![t] = id]
    /\ ret' = [ret EXCEPT ![t] = NotCalled]
    /\ UNCHANGED <<limit, usages, clock, fresh, log>>

\* faulty variant of limit_duration_get: a missing entry is created
\* (entry(id).or_insert_with(Usage::new) in place of get(&id)?)
limit_duration_get_inserting(t) ==
    /\ pc[t] = "get"
    /\ ~WriteHeld(ShardOf(arg[t]))
    /\ ~ReadHeld(ShardOf(arg[t]))
    /\ pc' = [pc EXCEPT ![t] = "ref_held"]
    /\ usages' = [usages EXCEPT ![arg[t]] =
                    IF @.present THEN @ ELSE UsageNew(clock)]
    /\ UNCHANGED <<limit, clock, arg, fresh, ret, log>>

\* faulty variant of limit_duration_get: a missing entry is read as a usage
\* made now (get(&id).map(|u| *u).unwrap_or_else(Usage::new) in place of
\* get(&id)?)
limit_duration_get_defaulting(t) ==
    /\ pc[t] = "get"
    /\ ~WriteHeld(ShardOf(arg[t]))
    /\ IF usages[arg[t]].present
       THEN /\ pc' = [pc EXCEPT ![t] = "ref_held"]
            /\ UNCHANGED ret
       ELSE /\ pc' = [pc EXCEPT ![t] = "idle"]
            /\ ret' = [ret EXCEPT ![t] =
                         LimitDurationOf(UsageNew(clock), clock, limit)]
    /\ UNCHANGED <<limit, usages, clock, arg, fresh, log>>

\* self.usages.get(&id)?: takes the shard's read lock; returns None at once
\* when the entry does not exist, else keeps the lock (Ref)
limit_duration_get(t) ==
    /\ pc[t] = "get"
    /\ ~WriteHeld(ShardOf(arg[t]))
    /\ IF usages[arg[t]].present
       THEN /\ pc' = [pc EXCEPT ![t] = "ref_held"]
            /\ UNCHANGED ret
       ELSE /\ pc' = [pc EXCEPT ![t] = "idle"]
            /\ ret' = [ret EXCEPT ![t] = None]
    /\ UNCHANGED <<limit, usages, clock, arg, fresh, log>>

\* read the clock, compute the answer, drop the Ref
limit_duration_compute(t) ==
    /\ pc[t] = "ref_held"
    /\ LET r == LimitDurationOf(usages[arg[t]], clock, limit)
       IN  IF InstantSub(clock, usages[arg[t]].time) = Underflow
              \/ (r.some /\ r.d = Underflow)
           THEN /\ pc' = [pc EXCEPT ![t] = "panicked"]
                /\ UNCHANGED ret
           ELSE /\ pc' = [pc EXCEPT ![t] = "idle"]
                /\ ret' = [ret EXCEPT ![t] = r]
    /\ UNCHANGED <<limit, usages, clock, arg, fresh, log>>

\* one step of thread t, whose calls take their id from S
Step(t, S) ==
    \/ \E id \in S : register_call(t, id)
    \/ register_get_mut(t)
    \/ register_some_arm(t)
    \/ register_none_arm(t)
    \/ register_insert(t)
    \/ \E id \in S : limit_duration_call(t, id)
    \/ limit_duration_get(t)
    \/ limit_duration_compute(t)

\* every thread calls on every ID
Next ==
    \/ Tick
    \/ \E t \in Threads : Step(t, Ids)

Spec == Init /\ [][Next]_vars

\* every thread calls on the one ID 1
NextOne ==
    \/ Tick
    \/ \E t \in Threads : Step(t, {1})

SpecOne == Init /\ [][NextOne]_vars

\* thread 1 calls on every ID while thread 2 keeps calling on ID 1
NextPair ==
    \/ Tick
    \/ Step(1, Ids)
    \/ Step(2, {1})

SpecPair == Init /\ [][NextPair]_vars

\* the Bucket after one register(1) at instant 0: ID 1 has a record
InitExisting ==
    /\ limit \in Limit
    /\ usages = [id \in Ids |-> IF id = 1 THEN UsageNew(0) ELSE NoUsage]
    /\ clock = 0
    /\ pc = [t \in Threads |-> "idle"]
    /\ arg = [t \in Threads |-> 1]
    /\ fresh = [t \in Threads |-> NoUsage]
    /\ ret = [t \in Threads |-> NotCalled]
    /\ log = [id \in Ids |-> IF id = 1 THEN <<0>> ELSE <<>>]

\* both threads call on ID 1, which has a record; thread 1 also calls on ID 2
SpecExisting == InitExisting /\ [][NextPair]_vars

\* the use the crate documents: register(id) only by a caller whose last
\* call was limit_duration(id) and answered None
register_after_none(t, id) ==
    /\ ret[t] = None
    /\ arg[t] = id
    /\ register_call(t, id)

\* the steps inside the calls of thread t
Internal(t) ==
    \/ register_get_mut(t)
    \/ register_some_arm(t)
    \/ register_none_arm(t)
    \/ register_insert(t)
    \/ limit_duration_get(t)
    \/ limit_duration_compute(t)

\* a single caller that asks before every use
NextGated ==
    \/ Tick
    \/ \E id \in Ids : register_after_none(1, id)
    \/ \E id \in Ids : limit_duration_call(1, id)
    \/ Internal(1)

SpecGated == Init /\ [][NextGated]_vars

\* limit_duration(id) by a caller that acts on an answer before asking again
limit_duration_call_once(t, id) ==
    /\ ret[t] = NotCalled
    /\ limit_duration_call(t, id)

\* finitely many calls: thread 1 asks and registers on every ID while
\* thread 2 registers ID 1
NextFair ==
    \/ Tick
    \/ \E id \in Ids : register_call(1, id)
    \/ \E id \in Ids : limit_duration_call_once(1, id)
    \/ Internal(1)
    \/ register_call(2, 1)
    \/ register_get_mut(2)
    \/ register_some_arm(2)
    \/ register_none_arm(2)
    \/ register_insert(2)

\* every thread inside a call is scheduled again
SpecFair ==
    /\ Init
    /\ [][NextFair]_vars
    /\ \A t \in Threads : WF_vars(Internal(t))

\* a single caller: thread 1 makes every call, one after the other
NextSeq ==
    \/ Tick
    \/ Step(1, Ids)

SpecSeq == Init /\ [][NextSeq]_vars

\* ------------------------------------------------------------ properties
\* thread t returns from limit_duration in this step
QueryReturns(t) == pc[t] \in QueryPcs /\ pc'[t] = "idle"

\* the last instant read by a register call on id
LastReg(id) == log[id][Len(log[id])]

\* C1 as stated: limit_duration(id) returns Some(window - elapsed), strictly
\* positive, when a record exists, elapsed is within the window (elapsed =
\* window included) and count >= max_count; None when there is no record,
\* elapsed exceeds the window, or count < max_count.  (Taken for the limits
\* whose window is positive.)
C1_Stated(u, now) ==
    IF u.present /\ now - u.time <= limit.duration /\ u.count >= limit.count
    THEN Some(limit.duration - (now - u.time))
    ELSE None

C1_AsStated ==
    [][\A t \in Threads : (limit.duration > 0 /\ QueryReturns(t)) =>
          /\ ret'[t] = C1_Stated(usages[arg[t]], clock)
          /\ (ret'[t].some => ret'[t].d > 0)]_vars

\* C1 amended: limit_duration(id) returns Some(window - elapsed), strictly
\* positive, exactly when a record exists, elapsed < window and
\* count >= max_count; it returns None when there is no record, when
\* elapsed >= window (elapsed = window included) or when count < max_count.
C1_Amended(u, now) ==
    IF u.present /\ now - u.time < limit.duration /\ u.count >= limit.count
    THEN Some(limit.duration - (now - u.time))
    ELSE None

C1_LimitDurationContract ==
    [][\A t \in Threads : QueryReturns(t) =>
          /\ ret'[t] = C1_Amended(usages[arg[t]], clock)
          /\ (ret'[t].some => ret'[t].d > 0)]_vars

\* a caller was answered None at elapsed = window > 0 on a record whose count
\* has reached max_count (an earlier answer would have been Some)
C1_Witness ==
    /\ pc[1] = "idle" /\ ret[1] = None
    /\ usages[arg[1]].present
    /\ usages[arg[1]].count >= limit.count
    /\ limit.duration > 0
    /\ clock - usages[arg[1]].time = limit.duration

\* C2: register(id) executed alone at time now leaves: with no record before,
\* count 1 and time now; with a record whose window is over
\* (now - time > window), count 1 and time now; otherwise the old count plus 1
\* and time now.  (Stated of the calls that return.)
C2_RegisterAlone ==
    [][/\ (pc[1] = "some_arm" /\ pc'[1] = "idle") =>
            LET u == usages[arg[1]]
            IN  /\ u.present
                /\ usages'[arg[1]] =
                     IF clock - u.time > limit.duration
                     THEN [present |-> TRUE, time |-> clock, count |-> 1]
                     ELSE [present |-> TRUE, time |-> clock,
                           count |-> u.count + 1]
       /\ (pc[1] = "none_arm" /\ pc'[1] = "insert") =>
            /\ ~usages[arg[1]].present
            /\ LastReg(arg[1])' = clock
       /\ (pc[1] = "insert" /\ pc'[1] = "idle") =>
            /\ ~usages[arg[1]].present
            /\ usages'[arg[1]] =
                  [present |-> TRUE, time |-> LastReg(arg[1]), count |-> 1]
      ]_vars

\* a second registration inside the window moved the window start
C2_Witness ==
    \E id \in Ids :
       /\ pc[1] = "idle"
       /\ Len(log[id]) = 2
       /\ log[id][2] > log[id][1]
       /\ usages[id] = [present |-> TRUE, time |-> log[id][2], count |-> 2]

\* no register call on id is under way
NoRegisterUnderWay(id) ==
    \A t \in Threads : ~(pc[t] \in RegisterPcs /\ arg[t] = id)

\* every registration of id came within the window of the one before it
InOneWindow(id) ==
    \A i \in 2..Len(log[id]) : log[id][i] - log[id][i - 1] <= limit.duration

\* C3 as stated: K register(id) calls on an ID from no record on, run
\* concurrently with no reads and each within the window of the one before
\* it, leave count_in_window = K once they have all returned.
C3_NoLostUpdates ==
    \A id \in Ids :
       (/\ \A t \in Threads : pc[t] = "idle" /\ ret[t] = NotCalled
        /\ Len(log[id]) >= 1
        /\ InOneWindow(id))
       => (usages[id].present /\ usages[id].count = Len(log[id]))

\* C4: a single caller, an ID with no record at first, max_count = N: a
\* limit_duration(id) made after fewer than N registrations returns None;
\* made after the N-th registration, all N in one window, and before that
\* window is over, it returns Some(window - time since the N-th registration).
C4_CountNAllowsN ==
    [][QueryReturns(1) =>
          LET id == arg[1]
              n == Len(log[id])
          IN  /\ n < limit.count => ret'[1] = None
              /\ ret'[1].some => n >= limit.count
              /\ (/\ n = limit.count
                  /\ InOneWindow(id)
                  /\ clock - LastReg(id) < limit.duration)
                 => ret'[1] = Some(limit.duration - (clock - LastReg(id)))
      ]_vars

\* the caller was answered Some right after its N-th registration, N > 1
C4_Witness ==
    /\ pc[1] = "idle" /\ ret[1].some
    /\ limit.count > 1
    /\ Len(log[arg[1]]) = limit.count
    /\ InOneWindow(arg[1])

\* C5 as stated: for a record with count >= max_count, limit_duration(id)
\* returns None once the window has elapsed, and a register(id) made at an
\* instant at which limit_duration(id) returns None on account of the elapsed
\* time leaves count 1.  (Taken for the limits whose window is positive and
\* the register calls that return.)
C5_WindowReset ==
    [][limit.duration > 0 =>
          LET u == usages[arg[1]]
          IN  /\ (/\ QueryReturns(1) /\ u.present
                  /\ u.count >= limit.count
                  /\ clock - u.time > limit.duration)
                 => ret'[1] = None
              /\ (/\ pc[1] = "some_arm" /\ pc'[1] = "idle"
                  /\ u.count >= limit.count
                  /\ LimitDurationOf(u, clock, limit) = None)
                 => usages'[arg[1]].count = 1
      ]_vars

\* the answer limit_duration gives for a map entry u at instant now
AnswerAt(u, now) == IF u.present THEN LimitDurationOf(u, now, limit) ELSE None

\* thread t takes a step of a register call it has begun
RegisterStepOf(t) == pc[t] \in RegisterPcs /\ pc'[t] # pc[t]

\* thread t takes a step of a limit_duration call (calling it included)
QueryStepOf(t) ==
    \/ pc[t] = "idle" /\ pc'[t] = "get"
    \/ pc[t] \in QueryPcs /\ pc'[t] # pc[t]

\* C6: a step of register(a) leaves the record (or its absence) of every
\* other ID b unchanged, and with it the answer of limit_duration(b).
C6_Independence ==
    [][\A t \in Threads : RegisterStepOf(t) =>
          \A b \in Ids \ {arg[t]} :
             /\ usages'[b] = usages[b]
             /\ log'[b] = log[b]
             /\ AnswerAt(usages'[b], clock') = AnswerAt(usages[b], clock)
      ]_vars

\* ID 1 was registered as often as the counter allows while ID 2, never
\* registered, was answered None
C6_Witness ==
    /\ pc[1] = "idle" /\ arg[1] = 2 /\ ret[1] = None
    /\ ~usages[2].present
    /\ usages[1].count = UsizeMax
    /\ AnswerAt(usages[1], clock).some

\* C7: no step of limit_duration(id), with or without a record for id,
\* changes the map (no record made, removed or altered), and none counts as
\* a usage.
C7_PureRead ==
    [][\A t \in Threads : QueryStepOf(t) => (usages' = usages /\ log' = log)]_vars

\* limit_duration returned None for an ID without a record and there is
\* still none
C7_Witness ==
    \E t \in Threads :
       /\ pc[t] = "idle" /\ ret[t] = None
       /\ ~usages[arg[t]].present
       /\ log[arg[t]] = <<>>

C9_NoPanic == \A t \in Threads : pc[t] # "panicked"

\* the records and the usages about to be inserted are well formed: no time
\* lies ahead of the clock and every count is in 1..UsizeMax
C9_RecordsSound ==
    /\ \A id \in Ids : usages[id].present =>
          (usages[id].time <= clock /\ usages[id].count \in 1..UsizeMax)
    /\ \A t \in Threads : pc[t] = "insert" =>
          (fresh[t].present /\ fresh[t].time <= clock /\ fresh[t].count = 1)

\* C9 amended: under every interleaving the records stay well formed, neither
\* subtraction underflows and limit_duration never panics; register panics
\* in one case only, when it finds a record whose count is the largest usize
\* and whose window is not over, and then it leaves the map as it was.
C9_PanicOnlyOnOverflow ==
    /\ []C9_RecordsSound
    /\ [][\A t \in Threads : (pc'[t] = "panicked" /\ pc[t] # "panicked") =>
             /\ pc[t] = "some_arm"
             /\ usages[arg[t]].count = UsizeMax
             /\ clock - usages[arg[t]].time \in 0..limit.duration
             /\ usages' = usages
         ]_vars

\* a register call has panicked on a record whose count is the largest usize
C9_Witness ==
    \E t \in Threads :
       /\ pc[t] = "panicked"
       /\ usages[arg[t]].count = UsizeMax

\* C10: with no register(id) in between, the answers of limit_duration(id)
\* only move from limited towards not limited: after Some(d) a later answer
\* is None or Some(d') with d' <= d, and d' < d at a later instant; after
\* None every later answer is None; and the answer is None once the time
\* elapsed exceeds the window.
C10_AnswerAfter ==
    (pc[1] = "idle" /\ ret[1] # NotCalled) =>
       LET now == AnswerAt(usages[arg[1]], clock)
       IN  IF ret[1].some
           THEN now = None \/ (now.some /\ now.d <= ret[1].d)
           ELSE now = None

C10_TowardsNotLimited ==
    /\ []C10_AnswerAfter
    /\ [][\A id \in Ids : usages'[id] = usages[id] =>
             LET a == AnswerAt(usages[id], clock)
                 b == AnswerAt(usages[id], clock')
             IN  /\ (a.some /\ clock' > clock) =>
                        (b = None \/ (b.some /\ b.d < a.d))
                 /\ a = None => b = None
                 /\ (usages[id].present
                       /\ clock - usages[id].time > limit.duration) => a = None
         ]_vars

\* the caller was answered Some(d) and, with no registration since, the
\* window has run out and the answer has become None
C10_Witness ==
    /\ pc[1] = "idle" /\ ret[1].some
    /\ clock - usages[arg[1]].time > limit.duration
    /\ AnswerAt(usages[arg[1]], clock) = None

\* C11: limit_duration(id) returns None for every ID for which no register
\* call has read the clock or stored a usage yet, whatever has been registered
\* for the other IDs; such an ID has no record.
C11_FreshNeverLimited ==
    /\ [](\A id \in Ids : log[id] = <<>> => ~usages[id].present)
    /\ [][\A t \in Threads :
             (QueryReturns(t) /\ log[arg[t]] = <<>>) => ret'[t] = None]_vars

\* ID 2, never registered, was answered None although ID 1 has been
\* registered twice and is limited
C11_Witness ==
    /\ pc[1] = "idle" /\ arg[1] = 2 /\ ret[1] = None
    /\ log[2] = <<>>
    /\ Len(log[1]) >= 2
    /\ AnswerAt(usages[1], clock).some

\* the registrations of id made within the last window: at an instant later
\* than now - window
UsagesInLast(id, now) ==
    Cardinality({i \in DOMAIN log[id] : log[id][i] > now - limit.duration})

\* every registration of id came less than a window after the one before it
GapsInsideWindow(id) ==
    \A i \in 2..Len(log[id]) : log[id][i] - log[id][i - 1] < limit.duration

\* C12 as stated: limit_duration(id) returns Some only if at least
\* max_count usages of id were registered within the last window.  (Taken
\* for a single caller whose registrations never fall on the very end of
\* the window of the one before.)
C12_LimitedOnlyAfterNInWindow ==
    [][(QueryReturns(1) /\ GapsInsideWindow(arg[1]) /\ ret'[1].some)
          => UsagesInLast(arg[1], clock) >= limit.count]_vars

\* C13: with window = 0, limit_duration(id) returns None for every ID in
\* every reachable state, whatever has been registered.
C13_ZeroWindowAllows ==
    /\ [](limit.duration = 0 =>
            \A id \in Ids : AnswerAt(usages[id], clock) = None)
    /\ [][\A t \in Threads :
             (limit.duration = 0 /\ QueryReturns(t)) => ret'[t] = None]_vars

\* with window = 0 a caller was answered None at the very instant at which
\* the record was written with a count that has reached max_count
C13_Witness ==
    \E t \in Threads :
       /\ limit.duration = 0
       /\ pc[t] = "idle" /\ ret[t] = None
       /\ usages[arg[t]].present
       /\ usages[arg[t]].count >= limit.count
       /\ usages[arg[t]].time = clock

\* the count that registrations at the instants s[1..n], made one after
\* another from no record on, leave behind
RECURSIVE SeqCount(_, _)
SeqCount(s, n) ==
    IF n <= 1 THEN n
    ELSE IF s[n] - s[n - 1] > limit.duration THEN 1
    ELSE SeqCount(s, n - 1) + 1

\* C14: for an ID that has a record, concurrent register(id) calls act one
\* at a time: at most one of them holds the entry, none holds it along with
\* a reader, and the record is at every moment what the registrations made
\* so far leave when run one after another in the order of their clock
\* reads (each increment counted once, one reset per expired window).
C14_OneAtATime ==
    /\ Cardinality({t \in Threads : pc[t] = "some_arm" /\ arg[t] = 1}) <= 1
    /\ ~(WriteHeld(ShardOf(1)) /\ ReadHeld(ShardOf(1)))
    /\ usages[1] = [present |-> TRUE,
                    time |-> LastReg(1),
                    count |-> SeqCount(log[1], Len(log[1]))]

\* one thread holds the entry of ID 1, whose window is over, while the other
\* waits in get_mut to register the same ID
C14_Witness ==
    \E t \in Threads : \E o \in Threads \ {t} :
       /\ pc[t] = "some_arm" /\ arg[t] = 1
       /\ pc[o] = "get_mut" /\ arg[o] = 1
       /\ clock - usages[1].time > limit.duration

\* the registrations of id at the instants a <= s < a + limit.duration
UsagesFrom(id, a) ==
    Cardinality({i \in DOMAIN log[id] :
                    a <= log[id][i] /\ log[id][i] < a + limit.duration})

\* C15: when a single caller registers an ID only right after limit_duration
\* of that ID answered None, every half-open interval of the length of the
\* window holds at most limit.count registrations of the ID.
C15_AdmissionBound ==
    \A id \in Ids : \A a \in 0..MaxTime : UsagesFrom(id, a) <= limit.count

\* the caller has used ID 1 limit.count > 1 times inside one window and is
\* now told to wait
C15_Witness ==
    /\ limit.count > 1
    /\ Len(log[1]) = limit.count
    /\ UsagesFrom(1, log[1][1]) = limit.count
    /\ pc[1] = "idle" /\ arg[1] = 1 /\ ret[1].some

\* C16 as stated: every write to the record of an ID stores a time that is
\* not before the one it replaces, and never replaces a record with a count
\* above 1 by a fresh record of count 1 while the window is still open.
C16_TimeNeverBackward ==
    [][\A id \in Ids :
          (usages[id].present /\ usages'[id] # usages[id]) =>
             /\ usages'[id].time >= usages[id].time
             /\ ~(/\ usages[id].count > 1
                  /\ usages'[id].count = 1
                  /\ clock - usages[id].time <= limit.duration)]_vars

\* the register(id) calls that have returned
Completed(id) ==
    Len(log[id]) - Cardinality({t \in Threads : pc[t] = "insert" /\ arg[t] = id})

\* C17: every record has a count of at least 1, no step removes a record,
\* and once a register(id) has returned the ID has a record in every later
\* state.
C17_Lifecycle ==
    /\ [](\A id \in Ids :
            /\ usages[id].present => usages[id].count >= 1
            /\ Completed(id) >= 1 => usages[id].present)
    /\ [][\A id \in Ids : usages[id].present => usages'[id].present]_vars

\* the record of ID 1 has outlived its window and was reset by a later
\* registration
C17_Witness ==
    /\ Len(log[1]) >= 2
    /\ LastReg(1) - log[1][Len(log[1]) - 1] > limit.duration
    /\ usages[1] = Usage(LastReg(1), 1)
    /\ \A t \in Threads : pc[t] = "idle"

InCall(t) == pc[t] \in RegisterPcs \cup QueryPcs

\* C18 as stated: under fair scheduling every invoked call eventually
\* returns.
C18_EveryCallReturns ==
    \A t \in Threads : InCall(t) ~> (pc[t] = "idle")

\* C18, amended: under fair scheduling every invoked call eventually returns
\* or panics, and it panics only in register on a record whose count is
\* usize::MAX inside its window; a thread that holds a guard can always
\* take its next step, which releases it.
C18_EveryCallEnds ==
    /\ \A t \in Threads : InCall(t) ~> (pc[t] \in {"idle", "panicked"})
    /\ [][\A t \in Threads :
            (pc[t] # "panicked" /\ pc'[t] = "panicked") =>
               (pc[t] = "some_arm" /\ usages[arg[t]].count = UsizeMax)]_vars
    /\ [](\A t \in Threads :
            pc[t] \in {"some_arm", "ref_held"} => ENABLED Internal(t))

\* thread 2 waits in get_mut for the shard while thread 1 holds a RefMut to
\* the record of the other ID
C18_Witness ==
    /\ pc[1] = "some_arm" /\ arg[1] = 2
    /\ pc[2] = "get_mut" /\ arg[2] = 1

====
